---- MODULE Spec2Model ----
(***************************************************************************)
(* State-machine model of the DASHBOARDOLDA client logic:                  *)
(*   - the PRT request panel (PRTRequestPanel), one instance per browser   *)
(*     tab, all tabs sharing one localStorage key;                         *)
(*   - the order status editor (OrderDetail / saveStatus);                 *)
(*   - the per-order card hooks (useTodos, useLocalImages);                *)
(*   - the order creation endpoints (POST manual, POST test).              *)
(* Text is modelled as sequences of one-character strings so that trim()   *)
(* and toLowerCase() are computed, not assumed.                            *)
(***************************************************************************)
EXTENDS Integers, Sequences, FiniteSets, TLC

\* ------------------------------------------------------------------ bounds
MaxQueue == 2
MaxClock == 1
NumRnd == 2
MaxPending == 1
MaxTimers == 1
MaxInflight == 2
MaxTodos == 2
MaxUuid == 2
MaxCalls == 2

\* --------------------------------------------------------------- variables
VARIABLES
  activeUser,     \* tab -> the activeUser prop of the panel mounted in it
  mounted,        \* tab -> the mount effects (load + listener) have run
  requests,       \* tab -> in-memory list (useState requests)
  category,       \* tab -> form field
  size,           \* tab -> form field
  quantity,       \* tab -> form field
  color,          \* tab -> form field
  sent,           \* tab -> success indicator
  timers,         \* tab -> number of scheduled setSent(false) timeouts
  storage,        \* value held by localStorage under STORAGE_KEY
  pending,        \* tab -> storage events dispatched to it, not yet handled
  now,            \* the wall clock read by Date.now() / new Date()
  lastOp,         \* the handler that ran last (history)
  order,          \* editor: displayed order (useState order)
  editingStatus,  \* editor: dirty flag of the fulfillment select
  editingPayment, \* editor: dirty flag of the payment select
  newStatus,      \* editor: draft fulfillment status
  newPayment,     \* editor: draft payment status
  saving,         \* editor: saving flag
  inflight,       \* editor: PATCH requests sent and not yet settled
  toast,          \* editor: last notification shown
  lastEd,         \* editor: the handler that ran last (history)
  todos,          \* card: order id -> in-memory todo list (useState todos)
  todoStorage,    \* card: order id -> value under olda-todos-<id>
  localImages,    \* card: order id -> in-memory images (useState localImages)
  imageStorage,   \* card: order id -> value under olda-images-<id>
  newText,        \* card: order id -> text of the "add task" input
  nextUuid,       \* card: number of ids crypto.randomUUID() has handed out
  lastCard,       \* card: the handler that ran last (history)
  ordersTable,    \* server: rows of the orders table, in insertion order
  calls,          \* server: call -> progress of one POST request
  emitted         \* server: orders passed to orderEvents.emit("new-order")

panelVars == <<activeUser, mounted, requests, category, size, quantity, color,
               sent, timers, storage, pending, now, lastOp>>
editorVars == <<order, editingStatus, editingPayment, newStatus, newPayment,
                saving, inflight, toast, lastEd>>
cardVars == <<todos, todoStorage, localImages, imageStorage, newText,
              nextUuid, lastCard>>
serverVars == <<ordersTable, calls, emitted>>
vars == <<activeUser, mounted, requests, category, size, quantity, color,
          sent, timers, storage, pending, now, lastOp,
          order, editingStatus, editingPayment, newStatus, newPayment,
          saving, inflight, toast, lastEd,
          todos, todoStorage, localImages, imageStorage, newText,
          nextUuid, lastCard,
          ordersTable, calls, emitted>>

\* ------------------------------------------------------------ text helpers
Max(a, b) == IF a >= b THEN a ELSE b

\* String.prototype.trim: strip leading and trailing white space.
RECURSIVE TrimLeft(_)
TrimLeft(s) == IF s # <<>> /\ Head(s) = " " THEN TrimLeft(Tail(s)) ELSE s

RECURSIVE TrimRight(_)
TrimRight(s) ==
  IF s # <<>> /\ s[Len(s)] = " " THEN TrimRight(SubSeq(s, 1, Len(s) - 1)) ELSE s

Trim(s) == TrimRight(TrimLeft(s))

\* String.prototype.toLowerCase on the letters that occur in user names.
LowerChar(c) ==
  CASE c = "L" -> "l"
    [] c = "O" -> "o"
    [] c = "I" -> "i"
    [] c = "I:" -> "i:"
    [] c = "C" -> "c"
    [] c = "A" -> "a"
    [] c = "S" -> "s"
    [] OTHER -> c

ToLowerCase(s) == [i \in 1..Len(s) |-> LowerChar(s[i])]

\* ------------------------------------------------------- panel: constants
Tabs == {"A", "B"}

\* "i:" stands for the letter i with diaeresis, "I:" for its capital.
Loic == <<"L", "o", "i", "c">>
LOIC_ACCENT == <<"L", "O", "I:", "C">>
Alex == <<"A", "l", "e", "x">>
Sam == <<"S", "a", "m">>
Users == {Loic, LOIC_ACCENT, Alex, Sam}

CATEGORIES == <<"T-shirt", "Polo">>

Absent == [kind |-> "absent", val |-> <<>>]
Corrupt == [kind |-> "corrupt", val |-> <<>>]

\* JSON.stringify(reqs) / JSON.parse(s): the records hold strings and finite
\* numbers only, so the text parses back to the list it was made from.
JSONstringify(reqs) == [kind |-> "json", val |-> reqs]

\* ---------------------------------------------------- panel: persistence
loadRequests(s) == IF s.kind = "json" THEN s.val ELSE <<>>

newId(time, rnd) == <<time, rnd>>

isLoic(u) ==
  \/ ToLowerCase(u) = <<"l", "o", "i", "c">>
  \/ ToLowerCase(u) = <<"l", "o", "i:", "c">>

\* ------------------------------------------------------ panel: list logic
PrependAtEnd(req, reqs) == reqs \o <<req>>

\* [req, ...requests]
Prepend(req, reqs) == <<req>> \o reqs

NewRequestUntrimmed(cat, sz, qty, col, user, id, created) ==
  [id |-> id, category |-> cat, size |-> sz, quantity |-> qty,
   color |-> col, from |-> user, createdAt |-> created,
   status |-> "nouveau"]

NewRequest(cat, sz, qty, col, user, id, created) ==
  [id |-> id, category |-> cat, size |-> Trim(sz), quantity |-> qty,
   color |-> Trim(col), from |-> user, createdAt |-> created,
   status |-> "nouveau"]

SendBaseFromStorage(mem, stored) == loadRequests(stored)

\* The list handleSend prepends to: [req, ...requests], the in-memory list.
SendBase(mem, stored) == mem

OnStorageKeep(mem, stored) == mem

\* The listener's new in-memory list: setRequests(loadRequests()).
OnStorage(mem, stored) == loadRequests(stored)

SendRejectedNoTrim(sz, col) == sz = <<>> \/ col = <<>>

\* if (!size.trim() || !color.trim()) return;
SendRejected(sz, col) == Trim(sz) = <<>> \/ Trim(col) = <<>>

markVuList(reqs, id) ==
  [i \in 1..Len(reqs) |->
     IF reqs[i].id = id THEN [reqs[i] EXCEPT !.status = "vu"] ELSE reqs[i]]

markTraiteList(reqs, id) ==
  [i \in 1..Len(reqs) |->
     IF reqs[i].id = id THEN [reqs[i] EXCEPT !.status = "traite"] ELSE reqs[i]]

IdDiffers(r, id) == r.id # id

deleteReqList(reqs, id) == SelectSeq(reqs, LAMBDA r : IdDiffers(r, id))

OnlyNouveau(r) == r.status = "nouveau"

NotTraite(r) == r.status # "traite"

clearTraitedList(reqs) == SelectSeq(reqs, NotTraite)

\* JSX guards of the per-entry buttons and of "Vider les traites".
canMarkVu(u, r) == isLoic(u) /\ r.status # "traite" /\ r.status = "nouveau"

canMarkTraiteAnyUser(u, r) == r.status # "traite"

canMarkTraite(u, r) == isLoic(u) /\ r.status # "traite"

canDelete(u, r) == isLoic(u) \/ r.from = u

canClear(u, reqs) == isLoic(u) /\ \E i \in 1..Len(reqs) : reqs[i].status = "traite"

\* --------------------------------------------------- panel: storage write
\* localStorage.setItem inside try/catch: either the value is stored, and a
\* storage event goes to every other tab with a listener when the value
\* changed, or setItem throws and the exception is swallowed.
saveRequests(t, next, ok) ==
  IF ok
  THEN /\ \A u \in Tabs \ {t} :
            (mounted[u] /\ JSONstringify(next) # storage) => pending[u] < MaxPending
       /\ storage' = JSONstringify(next)
       /\ pending' = [u \in Tabs |->
                        IF u # t /\ mounted[u] /\ JSONstringify(next) # storage
                        THEN pending[u] + 1 ELSE pending[u]]
  ELSE UNCHANGED <<storage, pending>>

persist(t, next, ok) ==
  /\ requests' = [requests EXCEPT ![t] = next]
  /\ saveRequests(t, next, ok)

Op(name, t, wrote, ok) == [op |-> name, tab |-> t, wrote |-> wrote, ok |-> ok]

\* -------------------------------------------------------- panel: actions
\* useEffect(() => setRequests(loadRequests()), []) and the listener effect.
Mount(t) ==
  /\ ~mounted[t]
  /\ mounted' = [mounted EXCEPT ![t] = TRUE]
  /\ requests' = [requests EXCEPT ![t] = loadRequests(storage)]
  /\ lastOp' = Op("mount", t, FALSE, FALSE)
  /\ UNCHANGED <<activeUser, category, size, quantity, color, sent, timers,
                 storage, pending, now>>
  /\ UNCHANGED <<editorVars, cardVars, serverVars>>

\* window "storage" listener: setRequests(loadRequests()).
StorageEvent(t) ==
  /\ mounted[t]
  /\ pending[t] > 0
  /\ pending' = [pending EXCEPT ![t] = pending[t] - 1]
  /\ requests' = [requests EXCEPT ![t] = OnStorage(requests[t], storage)]
  /\ lastOp' = Op("storage", t, FALSE, FALSE)
  /\ UNCHANGED <<activeUser, mounted, category, size, quantity, color, sent,
                 timers, storage, now>>
  /\ UNCHANGED <<editorVars, cardVars, serverVars>>

SetCategory(t, c) ==
  /\ mounted[t]
  /\ category' = [category EXCEPT ![t] = c]
  /\ lastOp' = Op("setCategory", t, FALSE, FALSE)
  /\ UNCHANGED <<activeUser, mounted, requests, size, quantity, color, sent,
                 timers, storage, pending, now>>
  /\ UNCHANGED <<editorVars, cardVars, serverVars>>

SetSize(t, v) ==
  /\ mounted[t]
  /\ size' = [size EXCEPT ![t] = v]
  /\ lastOp' = Op("setSize", t, FALSE, FALSE)
  /\ UNCHANGED <<activeUser, mounted, requests, category, quantity, color,
                 sent, timers, storage, pending, now>>
  /\ UNCHANGED <<editorVars, cardVars, serverVars>>

\* onChange={e => setQuantity(Math.max(1, Number(e.target.value)))}
SetQuantity(t, v) ==
  /\ mounted[t]
  /\ quantity' = [quantity EXCEPT ![t] = Max(1, v)]
  /\ lastOp' = Op("setQuantity", t, FALSE, FALSE)
  /\ UNCHANGED <<activeUser, mounted, requests, category, size, color, sent,
                 timers, storage, pending, now>>
  /\ UNCHANGED <<editorVars, cardVars, serverVars>>

SetColor(t, v) ==
  /\ mounted[t]
  /\ color' = [color EXCEPT ![t] = v]
  /\ lastOp' = Op("setColor", t, FALSE, FALSE)
  /\ UNCHANGED <<activeUser, mounted, requests, category, size, quantity,
                 sent, timers, storage, pending, now>>
  /\ UNCHANGED <<editorVars, cardVars, serverVars>>

\* handleSend; rnd is the Math.random() suffix of newId, d the time that
\* passes between Date.now() in newId and new Date() for createdAt.
HandleSend(t, rnd, d, ok) ==
  /\ mounted[t]
  /\ IF SendRejected(size[t], color[t])
     THEN /\ lastOp' = Op("handleSend", t, FALSE, FALSE)
          /\ UNCHANGED <<activeUser, mounted, requests, category, size,
                         quantity, color, sent, timers, storage, pending, now>>
     ELSE /\ Len(requests[t]) < MaxQueue
          /\ timers[t] < MaxTimers
          /\ now + d <= MaxClock
          /\ LET req == NewRequest(category[t], size[t], quantity[t], color[t],
                                   activeUser[t], newId(now, rnd), now + d)
             IN  /\ persist(t, Prepend(req, SendBase(requests[t], storage)), ok)
                 /\ lastOp' = Op("handleSend", t, TRUE, ok)
          /\ now' = now + d
          /\ category' = [category EXCEPT ![t] = CATEGORIES[1]]
          /\ size' = [size EXCEPT ![t] = <<>>]
          /\ quantity' = [quantity EXCEPT ![t] = 1]
          /\ color' = [color EXCEPT ![t] = <<>>]
          /\ sent' = [sent EXCEPT ![t] = TRUE]
          /\ timers' = [timers EXCEPT ![t] = timers[t] + 1]
          /\ UNCHANGED <<activeUser, mounted>>
  /\ UNCHANGED <<editorVars, cardVars, serverVars>>

\* setTimeout(() => setSent(false), 2200)
SentTimeout(t) ==
  /\ timers[t] > 0
  /\ timers' = [timers EXCEPT ![t] = timers[t] - 1]
  /\ sent' = [sent EXCEPT ![t] = FALSE]
  /\ lastOp' = Op("sentTimeout", t, FALSE, FALSE)
  /\ UNCHANGED <<activeUser, mounted, requests, category, size, quantity,
                 color, storage, pending, now>>
  /\ UNCHANGED <<editorVars, cardVars, serverVars>>

MarkVu(t, i, ok) ==
  /\ mounted[t]
  /\ i \in 1..Len(requests[t])
  /\ canMarkVu(activeUser[t], requests[t][i])
  /\ persist(t, markVuList(requests[t], requests[t][i].id), ok)
  /\ lastOp' = Op("markVu", t, TRUE, ok)
  /\ UNCHANGED <<activeUser, mounted, category, size, quantity, color, sent,
                 timers, now>>
  /\ UNCHANGED <<editorVars, cardVars, serverVars>>

MarkTraite(t, i, ok) ==
  /\ mounted[t]
  /\ i \in 1..Len(requests[t])
  /\ canMarkTraite(activeUser[t], requests[t][i])
  /\ persist(t, markTraiteList(requests[t], requests[t][i].id), ok)
  /\ lastOp' = Op("markTraite", t, TRUE, ok)
  /\ UNCHANGED <<activeUser, mounted, category, size, quantity, color, sent,
                 timers, now>>
  /\ UNCHANGED <<editorVars, cardVars, serverVars>>

DeleteReq(t, i, ok) ==
  /\ mounted[t]
  /\ i \in 1..Len(requests[t])
  /\ canDelete(activeUser[t], requests[t][i])
  /\ persist(t, deleteReqList(requests[t], requests[t][i].id), ok)
  /\ lastOp' = Op("deleteReq", t, TRUE, ok)
  /\ UNCHANGED <<activeUser, mounted, category, size, quantity, color, sent,
                 timers, now>>
  /\ UNCHANGED <<editorVars, cardVars, serverVars>>

ClearTraited(t, ok) ==
  /\ mounted[t]
  /\ canClear(activeUser[t], requests[t])
  /\ persist(t, clearTraitedList(requests[t]), ok)
  /\ lastOp' = Op("clearTraited", t, TRUE, ok)
  /\ UNCHANGED <<activeUser, mounted, category, size, quantity, color, sent,
                 timers, now>>
  /\ UNCHANGED <<editorVars, cardVars, serverVars>>

\* The wall clock advances.
Tick ==
  /\ now < MaxClock
  /\ now' = now + 1
  /\ lastOp' = Op("tick", "-", FALSE, FALSE)
  /\ UNCHANGED <<activeUser, mounted, requests, category, size, quantity,
                 color, sent, timers, storage, pending>>
  /\ UNCHANGED <<editorVars, cardVars, serverVars>>

\* ---------------------------------------------------------- panel: inputs
SizeInputs == {<<" ">>, <<" ", "X", "L">>}
ColorInputs == {<<" ">>, <<"N", " ">>}
QtyInputs == {0, 2}
CategoryInputs == {CATEGORIES[i] : i \in 1..Len(CATEGORIES)}

\* An entry left in storage by an earlier session.
OldEntry(u, st) ==
  [id |-> <<-1, 1>>, category |-> "Polo", size |-> <<"M">>, quantity |-> 3,
   color |-> <<"N">>, from |-> u, createdAt |-> -1, status |-> st]

\* A second, older entry left in storage.
OlderEntry(u, st) ==
  [id |-> <<-2, 1>>, category |-> "T-shirt", size |-> <<"L">>, quantity |-> 1,
   color |-> <<"N">>, from |-> u, createdAt |-> -2, status |-> st]

\* State of the panels right after construction (useState initial values),
\* for the given users and the given content of localStorage.
PanelInit(users, stores) ==
  /\ activeUser \in users
  /\ storage \in stores
  /\ mounted = [t \in Tabs |-> FALSE]
  /\ requests = [t \in Tabs |-> <<>>]
  /\ category = [t \in Tabs |-> CATEGORIES[1]]
  /\ size = [t \in Tabs |-> <<>>]
  /\ quantity = [t \in Tabs |-> 1]
  /\ color = [t \in Tabs |-> <<>>]
  /\ sent = [t \in Tabs |-> FALSE]
  /\ timers = [t \in Tabs |-> 0]
  /\ pending = [t \in Tabs |-> 0]
  /\ now = 0
  /\ lastOp = Op("init", "-", FALSE, FALSE)

\* ------------------------------------------------------ editor: constants
\* Three of the eleven OrderStatus values, two of the four PaymentStatus
\* values, and two contents of the notes field.
StatusValues == {"COMMANDE_A_TRAITER", "PRT_A_FAIRE", "ARCHIVES"}
PaymentValues == {"PENDING", "PAID"}
NotesValues == {<<>>, <<"note">>}

Orders == [status : StatusValues, paymentStatus : PaymentValues,
           notes : NotesValues]

\* data.order when the response body carries no "order" key.
UndefinedOrder ==
  [status |-> "undefined", paymentStatus |-> "undefined", notes |-> <<>>]

\* Bodies res.json() can resolve to: {order: o}, or a body without order.
Responses ==
  [hasOrder : {TRUE}, order : Orders]
    \cup {[hasOrder |-> FALSE, order |-> UndefinedOrder]}

NoResponse == [hasOrder |-> FALSE, order |-> UndefinedOrder]

Ed(name, data) == [op |-> name, data |-> data]

\* --------------------------------------------------------- editor: logic
PatchBodyStatusOnly(ns, np) == [status |-> ns]

PatchBodyWithNotes(ns, np) ==
  [status |-> ns, paymentStatus |-> np, notes |-> <<"audit">>]

\* body: JSON.stringify({ status: newStatus, paymentStatus: newPayment })
PatchBody(ns, np) == [status |-> ns, paymentStatus |-> np]

OrderFromDraft(data, ns, np, cur) ==
  [cur EXCEPT !.status = ns, !.paymentStatus = np]

\* setOrder(data.order)
OrderAfterSave(data, ns, np, cur) == data.order

RemoveAt(q, i) == SubSeq(q, 1, i - 1) \o SubSeq(q, i + 1, Len(q))

\* The component renders (and offers its controls) while order is an object.
Rendered == order # UndefinedOrder

EditorInit(initialOrders) ==
  /\ order \in initialOrders
  /\ editingStatus = FALSE
  /\ editingPayment = FALSE
  /\ newStatus = order.status
  /\ newPayment = order.paymentStatus
  /\ saving = FALSE
  /\ inflight = <<>>
  /\ toast = "none"
  /\ lastEd = Ed("init", NoResponse)

\* ------------------------------------------------------- editor: actions
SelectStatus(v) ==
  /\ Rendered
  /\ newStatus' = v
  /\ editingStatus' = TRUE
  /\ lastEd' = Ed("selectStatus", NoResponse)
  /\ UNCHANGED <<order, editingPayment, newPayment, saving, inflight, toast>>
  /\ UNCHANGED <<panelVars, cardVars, serverVars>>

SelectPayment(v) ==
  /\ Rendered
  /\ newPayment' = v
  /\ editingPayment' = TRUE
  /\ lastEd' = Ed("selectPayment", NoResponse)
  /\ UNCHANGED <<order, editingStatus, newStatus, saving, inflight, toast>>
  /\ UNCHANGED <<panelVars, cardVars, serverVars>>

\* "Annuler" button, rendered while a select is dirty.
Cancel ==
  /\ Rendered
  /\ editingStatus \/ editingPayment
  /\ newStatus' = order.status
  /\ newPayment' = order.paymentStatus
  /\ editingStatus' = FALSE
  /\ editingPayment' = FALSE
  /\ lastEd' = Ed("cancel", NoResponse)
  /\ UNCHANGED <<order, saving, inflight, toast>>
  /\ UNCHANGED <<panelVars, cardVars, serverVars>>

\* "Enregistrer" button (rendered while a select is dirty, disabled while
\* saving): saveStatus up to the first await.
SaveStatus ==
  /\ Rendered
  /\ editingStatus \/ editingPayment
  /\ ~saving
  /\ Len(inflight) < MaxInflight
  /\ saving' = TRUE
  /\ inflight' = Append(inflight, [body |-> PatchBody(newStatus, newPayment),
                                   phase |-> "fetch"])
  /\ lastEd' = Ed("saveStatus", NoResponse)
  /\ UNCHANGED <<order, editingStatus, editingPayment, newStatus, newPayment,
                 toast>>
  /\ UNCHANGED <<panelVars, cardVars, serverVars>>

\* await fetch(...) resolves: res.json() is started.
FetchResolve(i) ==
  /\ i \in 1..Len(inflight)
  /\ inflight[i].phase = "fetch"
  /\ inflight' = [inflight EXCEPT ![i].phase = "json"]
  /\ lastEd' = Ed("fetchResolve", NoResponse)
  /\ UNCHANGED <<order, editingStatus, editingPayment, newStatus, newPayment,
                 saving, toast>>
  /\ UNCHANGED <<panelVars, cardVars, serverVars>>

\* Variant: the rejection path without the finally block.
FetchRejectNoFinally(i) ==
  /\ i \in 1..Len(inflight)
  /\ inflight[i].phase = "fetch"
  /\ inflight' = RemoveAt(inflight, i)
  /\ toast' = "error"
  /\ lastEd' = Ed("fetchReject", NoResponse)
  /\ UNCHANGED <<order, editingStatus, editingPayment, newStatus, newPayment,
                 saving>>
  /\ UNCHANGED <<panelVars, cardVars, serverVars>>

\* await fetch(...) rejects: catch, then finally.
FetchReject(i) ==
  /\ i \in 1..Len(inflight)
  /\ inflight[i].phase = "fetch"
  /\ inflight' = RemoveAt(inflight, i)
  /\ toast' = "error"
  /\ saving' = FALSE
  /\ lastEd' = Ed("fetchReject", NoResponse)
  /\ UNCHANGED <<order, editingStatus, editingPayment, newStatus, newPayment>>
  /\ UNCHANGED <<panelVars, cardVars, serverVars>>

\* await res.json() resolves with data: the rest of the try block, then
\* finally.
JsonResolve(i, data) ==
  /\ i \in 1..Len(inflight)
  /\ inflight[i].phase = "json"
  /\ inflight' = RemoveAt(inflight, i)
  /\ order' = OrderAfterSave(data, newStatus, newPayment, order)
  /\ editingStatus' = FALSE
  /\ editingPayment' = FALSE
  /\ toast' = "success"
  /\ saving' = FALSE
  /\ lastEd' = Ed("jsonResolve", data)
  /\ UNCHANGED <<newStatus, newPayment>>
  /\ UNCHANGED <<panelVars, cardVars, serverVars>>

\* await res.json() rejects (the body is not JSON): catch, then finally.
JsonReject(i) ==
  /\ i \in 1..Len(inflight)
  /\ inflight[i].phase = "json"
  /\ inflight' = RemoveAt(inflight, i)
  /\ toast' = "error"
  /\ saving' = FALSE
  /\ lastEd' = Ed("jsonReject", NoResponse)
  /\ UNCHANGED <<order, editingStatus, editingPayment, newStatus, newPayment>>
  /\ UNCHANGED <<panelVars, cardVars, serverVars>>

\* ------------------------------------------------------- card: constants
OrderIds == {"o1", "o2"}

\* [...prev, dataUrl].slice(0, 2)
MaxImages == 2

Cd(name, o, wrote, ok) == [op |-> name, order |-> o, wrote |-> wrote, ok |-> ok]

\* ----------------------------------------------------------- card: logic
\* useState initialiser of both hooks: raw ? JSON.parse(raw) : [], and []
\* when getItem or JSON.parse throws.
initialList(s) == IF s.kind = "json" THEN s.val ELSE <<>>

\* if (!text.trim()) return;
AddRejected(text) == Trim(text) = <<>>

NewTodoDone(id, text) == [id |-> id, text |-> Trim(text), done |-> TRUE]

\* { id: crypto.randomUUID(), text: text.trim(), done: false }
NewTodo(id, text) == [id |-> id, text |-> Trim(text), done |-> FALSE]

toggleTodoList(list, id) ==
  [i \in 1..Len(list) |->
     IF list[i].id = id THEN [list[i] EXCEPT !.done = ~list[i].done]
     ELSE list[i]]

TodoIdDiffers(t, id) == t.id # id

deleteTodoList(list, id) == SelectSeq(list, LAMBDA t : TodoIdDiffers(t, id))

Take(list, n) == SubSeq(list, 1, IF Len(list) < n THEN Len(list) ELSE n)

addImageListKeepLast(prev, dataUrl) ==
  LET all == Append(prev, dataUrl)
  IN  SubSeq(all, Max(1, Len(all) - MaxImages + 1), Len(all))

\* [...prev, dataUrl].slice(0, 2)
addImageList(prev, dataUrl) == Take(Append(prev, dataUrl), MaxImages)

saveKeepMemoryOnFailure(o, updated, ok) ==
  /\ todos' = [todos EXCEPT ![o] = IF ok THEN updated ELSE todos[o]]
  /\ todoStorage' = [todoStorage EXCEPT
                       ![o] = IF ok THEN JSONstringify(updated) ELSE todoStorage[o]]

saveSharedKey(o, updated, ok) ==
  /\ todos' = [todos EXCEPT ![o] = updated]
  /\ todoStorage' = [p \in OrderIds |->
                       IF ok THEN JSONstringify(updated) ELSE todoStorage[p]]

\* save: setTodos(updated), then setItem(key, ...) inside try/catch.
save(o, updated, ok) ==
  /\ todos' = [todos EXCEPT ![o] = updated]
  /\ todoStorage' = [todoStorage EXCEPT
                       ![o] = IF ok THEN JSONstringify(updated) ELSE todoStorage[o]]

\* --------------------------------------------------------- card: actions
\* onChange={(e) => setNewText(e.target.value)}
SetNewText(o, v) ==
  /\ newText' = [newText EXCEPT ![o] = v]
  /\ lastCard' = Cd("setNewText", o, FALSE, FALSE)
  /\ UNCHANGED <<todos, todoStorage, localImages, imageStorage, nextUuid>>
  /\ UNCHANGED <<panelVars, editorVars, serverVars>>

\* handleAddTodo: addTodo(newText); setNewText("").
HandleAddTodo(o, ok) ==
  /\ IF AddRejected(newText[o])
     THEN /\ lastCard' = Cd("addTodo", o, FALSE, FALSE)
          /\ UNCHANGED <<todos, todoStorage, nextUuid>>
     ELSE /\ Len(todos[o]) < MaxTodos
          /\ nextUuid < MaxUuid
          /\ save(o, Append(todos[o], NewTodo(nextUuid + 1, newText[o])), ok)
          /\ nextUuid' = nextUuid + 1
          /\ lastCard' = Cd("addTodo", o, TRUE, ok)
  /\ newText' = [newText EXCEPT ![o] = <<>>]
  /\ UNCHANGED <<localImages, imageStorage>>
  /\ UNCHANGED <<panelVars, editorVars, serverVars>>

ToggleTodo(o, i, ok) ==
  /\ i \in 1..Len(todos[o])
  /\ save(o, toggleTodoList(todos[o], todos[o][i].id), ok)
  /\ lastCard' = Cd("toggleTodo", o, TRUE, ok)
  /\ UNCHANGED <<localImages, imageStorage, newText, nextUuid>>
  /\ UNCHANGED <<panelVars, editorVars, serverVars>>

DeleteTodo(o, i, ok) ==
  /\ i \in 1..Len(todos[o])
  /\ save(o, deleteTodoList(todos[o], todos[o][i].id), ok)
  /\ lastCard' = Cd("deleteTodo", o, TRUE, ok)
  /\ UNCHANGED <<localImages, imageStorage, newText, nextUuid>>
  /\ UNCHANGED <<panelVars, editorVars, serverVars>>

\* addImage: the updater computes the new list and stores it (try/catch).
AddImage(o, dataUrl, ok) ==
  /\ localImages' = [localImages EXCEPT
                       ![o] = addImageList(localImages[o], dataUrl)]
  /\ imageStorage' = [imageStorage EXCEPT
                        ![o] = IF ok
                               THEN JSONstringify(addImageList(localImages[o], dataUrl))
                               ELSE imageStorage[o]]
  /\ lastCard' = Cd("addImage", o, TRUE, ok)
  /\ UNCHANGED <<todos, todoStorage, newText, nextUuid>>
  /\ UNCHANGED <<panelVars, editorVars, serverVars>>

\* ---------------------------------------------------------- card: inputs
TextInputs == {<<" ">>, <<" ", "a", " ">>}
ImageInputs == {"img1", "img2", "img3"}

\* A todo left in storage by an earlier session.
OldTodo == [id |-> 0, text |-> <<"old">>, done |-> FALSE]

\* State of the cards right after construction: both hooks read their key.
CardInit(todoStores, imageStores) ==
  /\ todoStorage \in [OrderIds -> todoStores]
  /\ imageStorage \in [OrderIds -> imageStores]
  /\ todos = [o \in OrderIds |-> initialList(todoStorage[o])]
  /\ localImages = [o \in OrderIds |-> initialList(imageStorage[o])]
  /\ newText = [o \in OrderIds |-> <<>>]
  /\ nextUuid = 0
  /\ lastCard = Cd("init", "-", FALSE, FALSE)

\* ----------------------------------------------------- server: constants
CallIds == 1..MaxCalls

NoRow ==
  [orderNumber |-> <<>>, customerName |-> "-", customerEmail |-> "-",
   customerPhone |-> "-", status |-> "-", paymentStatus |-> "-",
   total |-> -1, subtotal |-> -1, items |-> <<>>]

NoAnswer == [status |-> 0, order |-> NoRow, error |-> "-"]

IdleCall ==
  [pc |-> "idle", endpoint |-> "-", orderNumber |-> <<>>, response |-> NoAnswer]

\* Columns the handlers leave out take the column defaults of the orders
\* table: an order starts at intake / pending payment, without a phone.
SchemaDefaults ==
  [customerPhone |-> "null", status |-> "COMMANDE_A_TRAITER",
   paymentStatus |-> "PENDING"]

\* --------------------------------------------------------- server: logic
\* `MAN-${Date.now()}`
ManualNumber(time) == <<"MAN", time>>

\* `TEST-${Date.now()}`
TestNumber(time) == <<"TEST", time>>

\* orderNumber + "-RAW"
RawNumber(orderNumber) == Append(orderNumber, "-RAW")

ManualDataWrongStatus(orderNumber) ==
  [orderNumber |-> orderNumber, customerName |-> "", customerEmail |-> "",
   customerPhone |-> SchemaDefaults.customerPhone,
   status |-> "ARCHIVES", paymentStatus |-> "PAID",
   total |-> 0, subtotal |-> 0, items |-> <<>>]

\* The row prisma.order.create stores and returns for the manual endpoint
\* (include: { items: true }); amounts are in cents.
ManualData(orderNumber) ==
  [orderNumber |-> orderNumber, customerName |-> "", customerEmail |-> "",
   customerPhone |-> SchemaDefaults.customerPhone,
   status |-> "COMMANDE_A_TRAITER", paymentStatus |-> "PENDING",
   total |-> 0, subtotal |-> 0, items |-> <<>>]

TestItems ==
  <<[name |-> "Bougie Signature Ambre", sku |-> "BSIG-AMB-001",
     quantity |-> 2, price |-> 4999],
    [name |-> "Diffuseur Luxe Bois", sku |-> "DLUX-BOIS-01",
     quantity |-> 1, price |-> 3001]>>

\* The row prisma.order.create stores and returns for the test endpoint.
TestData(orderNumber) ==
  [orderNumber |-> orderNumber, customerName |-> "Marie Dupont",
   customerEmail |-> "marie.dupont@example.com",
   customerPhone |-> "+33 6 12 34 56 78",
   status |-> SchemaDefaults.status,
   paymentStatus |-> SchemaDefaults.paymentStatus,
   total |-> 14999, subtotal |-> 12999, items |-> TestItems]

\* The row of the diagnostic INSERT INTO orders.
RawData(orderNumber) ==
  [orderNumber |-> RawNumber(orderNumber), customerName |-> "Test Raw",
   customerEmail |-> "test@test.com",
   customerPhone |-> SchemaDefaults.customerPhone,
   status |-> SchemaDefaults.status,
   paymentStatus |-> SchemaDefaults.paymentStatus,
   total |-> 100, subtotal |-> 100, items |-> <<>>]

NumberDiffers(row, n) == row.orderNumber # n

\* DELETE FROM orders WHERE "orderNumber" = n
DeleteByNumber(table, n) == SelectSeq(table, LAMBDA row : NumberDiffers(row, n))

Answer(status, row, error) == [status |-> status, order |-> row, error |-> error]

Finish(c, answer) ==
  calls' = [calls EXCEPT ![c].pc = "done", ![c].response = answer]

ServerInit ==
  /\ ordersTable = <<>>
  /\ calls = [c \in CallIds |-> IdleCall]
  /\ emitted = <<>>

\* ------------------------------------------------------- server: actions
\* POST /api/orders/manual up to the await of prisma.order.create.
PostManual(c) ==
  /\ calls[c].pc = "idle"
  /\ calls' = [calls EXCEPT ![c].pc = "m_create", ![c].endpoint = "manual",
                            ![c].orderNumber = ManualNumber(now)]
  /\ UNCHANGED <<ordersTable, emitted>>
  /\ UNCHANGED <<panelVars, editorVars, cardVars>>

\* prisma.order.create settles: emit and answer 201, or the rejection leaves
\* the handler and the framework answers 500.
ManualCreate(c, ok) ==
  /\ calls[c].pc = "m_create"
  /\ IF ok
     THEN /\ ordersTable' = Append(ordersTable, ManualData(calls[c].orderNumber))
          /\ emitted' = Append(emitted, calls[c].orderNumber)
          /\ Finish(c, Answer(201, ManualData(calls[c].orderNumber), "-"))
     ELSE /\ Finish(c, Answer(500, NoRow, "unhandled"))
          /\ UNCHANGED <<ordersTable, emitted>>
  /\ UNCHANGED <<panelVars, editorVars, cardVars>>

\* POST /api/orders/test up to the await of the diagnostic insert.
PostTest(c) ==
  /\ calls[c].pc = "idle"
  /\ calls' = [calls EXCEPT ![c].pc = "t_insert", ![c].endpoint = "test",
                            ![c].orderNumber = TestNumber(now)]
  /\ UNCHANGED <<ordersTable, emitted>>
  /\ UNCHANGED <<panelVars, editorVars, cardVars>>

\* The diagnostic INSERT settles.
TestRawInsert(c, ok) ==
  /\ calls[c].pc = "t_insert"
  /\ IF ok
     THEN /\ ordersTable' = Append(ordersTable, RawData(calls[c].orderNumber))
          /\ calls' = [calls EXCEPT ![c].pc = "t_delete"]
     ELSE /\ Finish(c, Answer(500, NoRow, "DB raw insert failed"))
          /\ UNCHANGED ordersTable
  /\ UNCHANGED emitted
  /\ UNCHANGED <<panelVars, editorVars, cardVars>>

\* The diagnostic DELETE settles.
TestRawDelete(c, ok) ==
  /\ calls[c].pc = "t_delete"
  /\ IF ok
     THEN /\ ordersTable' = DeleteByNumber(ordersTable,
                                           RawNumber(calls[c].orderNumber))
          /\ calls' = [calls EXCEPT ![c].pc = "t_create"]
     ELSE /\ Finish(c, Answer(500, NoRow, "DB raw insert failed"))
          /\ UNCHANGED ordersTable
  /\ UNCHANGED emitted
  /\ UNCHANGED <<panelVars, editorVars, cardVars>>

\* prisma.order.create of the test order settles.
TestCreate(c, ok) ==
  /\ calls[c].pc = "t_create"
  /\ IF ok
     THEN /\ ordersTable' = Append(ordersTable, TestData(calls[c].orderNumber))
          /\ Finish(c, Answer(201, TestData(calls[c].orderNumber), "-"))
     ELSE /\ Finish(c, Answer(500, NoRow, "Prisma ORM create failed"))
          /\ UNCHANGED ordersTable
  /\ UNCHANGED emitted
  /\ UNCHANGED <<panelVars, editorVars, cardVars>>

\* --------------------------------------------------------- specifications
OneUser(u) == {[t \in Tabs |-> u]}

IdleEditor == EditorInit({[status |-> "COMMANDE_A_TRAITER",
                           paymentStatus |-> "PENDING", notes |-> <<>>]})

IdlePanel == PanelInit(OneUser(Alex), {Absent})

IdleCards == CardInit({Absent}, {Absent})

IdleServer == ServerInit

\* One panel instance, every form input.
InitForm ==
  /\ PanelInit(OneUser(Alex),
               {Absent, Corrupt, JSONstringify(<<OldEntry(Sam, "nouveau")>>)})
  /\ IdleEditor
  /\ IdleCards
  /\ IdleServer

NextForm ==
  \E t \in {"A"} :
    \/ Mount(t)
    \/ \E c \in CategoryInputs : SetCategory(t, c)
    \/ \E v \in SizeInputs : SetSize(t, v)
    \/ \E v \in QtyInputs : SetQuantity(t, v)
    \/ \E v \in ColorInputs : SetColor(t, v)
    \/ \E ok \in BOOLEAN : HandleSend(t, 1, 0, ok)
    \/ SentTimeout(t)

SpecForm == InitForm /\ [][NextForm]_vars

\* One panel instance, every queue operation, any user; storage writes
\* succeed.
InitPanel ==
  /\ PanelInit({[t \in Tabs |-> u] : u \in Users},
               {Absent, JSONstringify(<<OldEntry(Sam, "nouveau")>>)})
  /\ IdleEditor
  /\ IdleCards
  /\ IdleServer

NextPanel ==
  \/ Tick
  \/ \E t \in {"A"} :
       \/ Mount(t)
       \/ SetSize(t, <<"L">>)
       \/ SetColor(t, <<"N">>)
       \/ \E rnd \in 1..NumRnd, d \in {0, 1} : HandleSend(t, rnd, d, TRUE)
       \/ SentTimeout(t)
       \/ \E i \in 1..MaxQueue : MarkVu(t, i, TRUE)
       \/ \E i \in 1..MaxQueue : MarkTraite(t, i, TRUE)
       \/ \E i \in 1..MaxQueue : DeleteReq(t, i, TRUE)
       \/ ClearTraited(t, TRUE)

SpecPanel == InitPanel /\ [][NextPanel]_vars

\* One panel instance of the privileged recipient; a storage write may throw
\* (quota exceeded) and is then swallowed.
InitQuota ==
  /\ PanelInit(OneUser(Loic),
               {Absent, JSONstringify(<<OldEntry(Sam, "vu")>>)})
  /\ IdleEditor
  /\ IdleCards
  /\ IdleServer

NextQuota ==
  \/ Tick
  \/ \E t \in {"A"} :
       \/ Mount(t)
       \/ SetSize(t, <<"L">>)
       \/ SetColor(t, <<"N">>)
       \/ \E ok \in BOOLEAN : HandleSend(t, 1, 0, ok)
       \/ SentTimeout(t)
       \/ \E i \in 1..MaxQueue, ok \in BOOLEAN : MarkTraite(t, i, ok)
       \/ \E ok \in BOOLEAN : ClearTraited(t, ok)

SpecQuota == InitQuota /\ [][NextQuota]_vars

\* Two tabs of one browser sharing the storage key, the privileged recipient
\* in one and another user in the other; storage writes succeed.
InitTabs ==
  /\ PanelInit({[t \in Tabs |-> IF t = "A" THEN Loic ELSE Sam]},
               {JSONstringify(<<OldEntry(Alex, "nouveau")>>)})
  /\ IdleEditor
  /\ IdleCards
  /\ IdleServer

NextTabs ==
  \E t \in Tabs :
       \/ Mount(t)
       \/ StorageEvent(t)
       \/ SetSize(t, <<"L">>)
       \/ SetColor(t, <<"N">>)
       \/ \E rnd \in 1..NumRnd : HandleSend(t, rnd, 0, TRUE)
       \/ SentTimeout(t)
       \/ \E i \in 1..MaxQueue : DeleteReq(t, i, TRUE)

SpecTabs == InitTabs /\ [][NextTabs]_vars

\* One panel instance of the privileged recipient and the todo list of one
\* card; every storage write may throw and is then swallowed.
InitWrites ==
  /\ PanelInit(OneUser(Loic), {JSONstringify(<<OldEntry(Sam, "nouveau")>>)})
  /\ IdleEditor
  /\ CardInit({Absent}, {Absent})
  /\ IdleServer

NextWrites ==
  \/ \E t \in {"A"} :
       \/ Mount(t)
       \/ \E i \in 1..MaxQueue, ok \in BOOLEAN : MarkVu(t, i, ok)
       \/ \E i \in 1..MaxQueue, ok \in BOOLEAN : MarkTraite(t, i, ok)
       \/ \E i \in 1..MaxQueue, ok \in BOOLEAN : DeleteReq(t, i, ok)
       \/ \E ok \in BOOLEAN : ClearTraited(t, ok)
  \/ \E o \in {"o1"} :
       \/ SetNewText(o, <<"a">>)
       \/ \E ok \in BOOLEAN : HandleAddTodo(o, ok)
       \/ \E i \in 1..MaxTodos, ok \in BOOLEAN : ToggleTodo(o, i, ok)
       \/ \E i \in 1..MaxTodos, ok \in BOOLEAN : DeleteTodo(o, i, ok)

SpecWrites == InitWrites /\ [][NextWrites]_vars

\* One panel instance whose active user is the privileged recipient (in its
\* upper-case accented spelling) or another user, on a stored queue that
\* holds a new or a done entry; storage writes succeed.
InitRoles ==
  /\ PanelInit({[t \in Tabs |-> u] : u \in {LOIC_ACCENT, Alex, Sam}},
               {JSONstringify(<<OldEntry(Sam, "nouveau")>>),
                JSONstringify(<<OldEntry(Sam, "traite")>>)})
  /\ IdleEditor
  /\ IdleCards
  /\ IdleServer

NextRoles ==
  \E t \in {"A"} :
       \/ Mount(t)
       \/ SetSize(t, <<"L">>)
       \/ SetColor(t, <<"N">>)
       \/ HandleSend(t, 1, 0, TRUE)
       \/ SentTimeout(t)
       \/ \E i \in 1..MaxQueue : MarkVu(t, i, TRUE)
       \/ \E i \in 1..MaxQueue : MarkTraite(t, i, TRUE)
       \/ \E i \in 1..MaxQueue : DeleteReq(t, i, TRUE)
       \/ ClearTraited(t, TRUE)

SpecRoles == InitRoles /\ [][NextRoles]_vars

\* The two order creation endpoints, called concurrently; any database
\* operation may fail.
InitServer ==
  /\ ServerInit
  /\ IdlePanel
  /\ IdleEditor
  /\ IdleCards

NextServer ==
  \/ Tick
  \/ \E c \in CallIds :
       \/ PostManual(c)
       \/ \E ok \in BOOLEAN : ManualCreate(c, ok)
       \/ PostTest(c)
       \/ \E ok \in BOOLEAN : TestRawInsert(c, ok)
       \/ \E ok \in BOOLEAN : TestRawDelete(c, ok)
       \/ \E ok \in BOOLEAN : TestCreate(c, ok)

SpecServer == InitServer /\ [][NextServer]_vars

\* The todo lists of the cards of two orders; the write of an added task
\* may throw.
InitCards ==
  /\ CardInit({Absent, JSONstringify(<<OldTodo>>)}, {Absent})
  /\ IdlePanel
  /\ IdleEditor
  /\ IdleServer

NextCards ==
  \E o \in OrderIds :
    \/ SetNewText(o, <<"a">>)
    \/ \E ok \in BOOLEAN : HandleAddTodo(o, ok)
    \/ \E i \in 1..MaxTodos : ToggleTodo(o, i, TRUE)
    \/ \E i \in 1..MaxTodos : DeleteTodo(o, i, TRUE)

SpecCards == InitCards /\ [][NextCards]_vars

\* The uploaded images of the cards of two orders; a storage write may throw.
InitImages ==
  /\ CardInit({Absent},
              {Absent, Corrupt, JSONstringify(<<"img0">>),
               JSONstringify(<<"img0", "img9">>)})
  /\ IdlePanel
  /\ IdleEditor
  /\ IdleServer

NextImages ==
  \E o \in OrderIds, dataUrl \in ImageInputs, ok \in BOOLEAN :
    AddImage(o, dataUrl, ok)

SpecImages == InitImages /\ [][NextImages]_vars

\* Two tabs of the privileged recipient on a stored queue of two entries:
\* only status changes and storage notifications; storage writes succeed.
InitAdvance ==
  /\ PanelInit(OneUser(Loic),
               {JSONstringify(<<OldEntry(Sam, "nouveau"),
                                OlderEntry(Alex, "nouveau")>>)})
  /\ IdleEditor
  /\ IdleCards
  /\ IdleServer

NextAdvance ==
  \E t \in Tabs :
       \/ Mount(t)
       \/ StorageEvent(t)
       \/ \E i \in 1..MaxQueue : MarkVu(t, i, TRUE)
       \/ \E i \in 1..MaxQueue : MarkTraite(t, i, TRUE)

SpecAdvance == InitAdvance /\ [][NextAdvance]_vars

\* Two tabs, the privileged recipient in one and a submitter in the other,
\* with a clock that advances; storage writes succeed.
InitOrder ==
  /\ PanelInit({[t \in Tabs |-> IF t = "A" THEN Loic ELSE Sam]},
               {JSONstringify(<<OldEntry(Alex, "nouveau")>>)})
  /\ IdleEditor
  /\ IdleCards
  /\ IdleServer

NextOrder ==
  \/ Tick
  \/ \E t \in Tabs :
       \/ Mount(t)
       \/ StorageEvent(t)
       \/ SetSize(t, <<"L">>)
       \/ SetColor(t, <<"N">>)
       \/ HandleSend(t, 1, 0, TRUE)
       \/ \E i \in 1..MaxQueue : MarkTraite(t, i, TRUE)
       \/ \E i \in 1..MaxQueue : DeleteReq(t, i, TRUE)
       \/ ClearTraited(t, TRUE)

SpecOrder == InitOrder /\ [][NextOrder]_vars

\* The todo list of one card, every text input, any stored value; a storage
\* write may throw.
InitTodo ==
  /\ CardInit({Absent, Corrupt, JSONstringify(<<OldTodo>>)}, {Absent})
  /\ IdlePanel
  /\ IdleEditor
  /\ IdleServer

NextTodo ==
  \E o \in {"o1"} :
    \/ \E v \in TextInputs : SetNewText(o, v)
    \/ \E ok \in BOOLEAN : HandleAddTodo(o, ok)
    \/ \E i \in 1..MaxTodos, ok \in BOOLEAN : ToggleTodo(o, i, ok)
    \/ \E i \in 1..MaxTodos, ok \in BOOLEAN : DeleteTodo(o, i, ok)

SpecTodo == InitTodo /\ [][NextTodo]_vars

\* The order status editor and the update endpoint's possible answers.
InitEditor ==
  /\ EditorInit(Orders)
  /\ IdlePanel
  /\ IdleCards
  /\ IdleServer

NextEditor ==
  \/ \E v \in StatusValues : SelectStatus(v)
  \/ \E v \in PaymentValues : SelectPayment(v)
  \/ Cancel
  \/ SaveStatus
  \/ \E i \in 1..MaxInflight : FetchResolve(i)
  \/ \E i \in 1..MaxInflight : FetchReject(i)
  \/ \E i \in 1..MaxInflight, data \in Responses : JsonResolve(i, data)
  \/ \E i \in 1..MaxInflight : JsonReject(i)

SpecEditor == InitEditor /\ [][NextEditor]_vars

\* The same editor when every request that was sent completes: its fetch
\* promise settles, and so does the res.json() promise that follows.
RequestCompletes ==
  \E i \in 1..MaxInflight :
    \/ FetchResolve(i)
    \/ FetchReject(i)
    \/ \E data \in Responses : JsonResolve(i, data)
    \/ JsonReject(i)

SpecEditorFair == SpecEditor /\ WF_vars(RequestCompletes)

Init == InitTabs

Next == NextTabs

Spec == SpecTabs

\* ------------------------------------------------------------------ claims
FormOf(t) == <<category[t], size[t], quantity[t], color[t]>>

\* C1: a handleSend whose size or color is empty after trimming changes
\* nothing: the in-memory list, the stored value, the form fields and the
\* success indicator (and its timers) are as before.
C1_RejectedSubmitNoMutation ==
  [][\A t \in Tabs :
       (/\ lastOp'.op = "handleSend"
        /\ lastOp'.tab = t
        /\ (Trim(size[t]) = <<>> \/ Trim(color[t]) = <<>>))
       => /\ requests' = requests
          /\ storage' = storage
          /\ FormOf(t)' = FormOf(t)
          /\ sent' = sent
          /\ timers' = timers]_vars

\* A submit with a white-space-only size was made on a non-empty queue.
C1_Witness ==
  /\ lastOp.op = "handleSend"
  /\ ~lastOp.wrote
  /\ size["A"] = <<" ">>
  /\ color["A"] = <<"N", " ">>
  /\ requests["A"] # <<>>

ValidSend(t) ==
  /\ lastOp'.op = "handleSend"
  /\ lastOp'.tab = t
  /\ Trim(size[t]) # <<>>
  /\ Trim(color[t]) # <<>>

HeadIsNewEntry(t) ==
  /\ Len(requests'[t]) = Len(requests[t]) + 1
  /\ Tail(requests'[t]) = requests[t]
  /\ Head(requests'[t]).status = "nouveau"
  /\ Head(requests'[t]).category = category[t]
  /\ Head(requests'[t]).size = Trim(size[t])
  /\ Head(requests'[t]).color = Trim(color[t])
  /\ Head(requests'[t]).quantity = quantity[t]
  /\ Head(requests'[t]).quantity >= 1
  /\ Head(requests'[t]).from = activeUser[t]

\* C2 as stated: after every valid submit the in-memory list is the new
\* entry (status nouveau, submitted category, trimmed size and color,
\* quantity >= 1, active user) followed by the previous list, and storage
\* holds that same list.
C2_Original ==
  [][\A t \in Tabs :
       ValidSend(t)
       => /\ HeadIsNewEntry(t)
          /\ storage' = JSONstringify(requests'[t])]_vars

\* C2 amended: the in-memory part always; storage holds the same list when
\* setItem succeeds and keeps its previous value when setItem throws.
C2_ValidSubmitPrepends ==
  [][\A t \in Tabs :
       ValidSend(t)
       => /\ HeadIsNewEntry(t)
          /\ lastOp'.ok => storage' = JSONstringify(requests'[t])
          /\ ~lastOp'.ok => storage' = storage]_vars

\* A padded size was submitted on top of a stored entry and written.
C2_Witness ==
  /\ lastOp.op = "handleSend"
  /\ lastOp.wrote
  /\ lastOp.ok
  /\ Len(requests["A"]) = 2
  /\ requests["A"][1].size = <<"X", "L">>
  /\ requests["A"][1].quantity = 2
  /\ requests["A"][1].category = "Polo"
  /\ requests["A"][2] = OldEntry(Sam, "nouveau")
  /\ storage = JSONstringify(requests["A"])

Rank(st) == CASE st = "nouveau" -> 0 [] st = "vu" -> 1 [] st = "traite" -> 2

Range(q) == {q[i] : i \in 1..Len(q)}

\* C3: within one panel instance no operation moves the status of an entry
\* backwards: markVu / markTraite keep every position at its status or
\* further along nouveau -> vu -> traite (a traite entry stays traite), a
\* submit leaves the previous entries as they were, and deleteReq /
\* clearTraited only drop entries.
C3_StatusMonotonic ==
  [][\A t \in Tabs :
       lastOp'.tab = t
       => /\ lastOp'.op \in {"markVu", "markTraite"}
               => /\ Len(requests'[t]) = Len(requests[t])
                  /\ \A i \in 1..Len(requests[t]) :
                        Rank(requests'[t][i].status) >= Rank(requests[t][i].status)
          /\ (lastOp'.op = "handleSend" /\ lastOp'.wrote)
               => Tail(requests'[t]) = requests[t]
          /\ lastOp'.op \in {"deleteReq", "clearTraited"}
               => Range(requests'[t]) \subseteq Range(requests[t])]_vars

RECURSIVE NonDone(_)
NonDone(q) ==
  IF q = <<>> THEN <<>>
  ELSE IF Head(q).status = "traite" THEN NonDone(Tail(q))
       ELSE <<Head(q)>> \o NonDone(Tail(q))

\* C4 as stated: after clearTraited the in-memory list and the stored list
\* both equal the previous list without its traite entries, the others
\* unmodified and in their order.
C4_Original ==
  [][\A t \in Tabs :
       (lastOp'.op = "clearTraited" /\ lastOp'.tab = t)
       => /\ requests'[t] = NonDone(requests[t])
          /\ storage' = JSONstringify(NonDone(requests[t]))]_vars

\* C4 amended: the in-memory list always; the stored list when setItem
\* succeeds, and the stored value is left as it was when setItem throws.
C4_ClearRemovesExactlyDone ==
  [][\A t \in Tabs :
       (lastOp'.op = "clearTraited" /\ lastOp'.tab = t)
       => /\ requests'[t] = NonDone(requests[t])
          /\ lastOp'.ok => storage' = JSONstringify(NonDone(requests[t]))
          /\ ~lastOp'.ok => storage' = storage]_vars

\* clearTraited ran, was stored, and kept a vu entry.
C4_Witness ==
  /\ lastOp.op = "clearTraited"
  /\ lastOp.ok
  /\ requests["A"] = <<OldEntry(Sam, "vu")>>
  /\ storage = JSONstringify(requests["A"])

NotOwned(q, u) == {i \in 1..Len(q) : q[i].from # u}

\* C5: a deleteReq run by a user who is not the privileged recipient removes
\* no entry recorded under another submitter.
C5_OnlyOwnerOrLoicDeletes ==
  [][\A t \in Tabs :
       (lastOp'.op = "deleteReq" /\ lastOp'.tab = t /\ ~isLoic(activeUser[t]))
       => Cardinality(NotOwned(requests'[t], activeUser[t]))
            = Cardinality(NotOwned(requests[t], activeUser[t]))]_vars

\* C6: a tab that holds the one-entry list and has not yet handled the
\* notification of the other tab's submit (storage = [X, original], X an
\* entry of another user and not a copy of the original) submits Y: storage
\* becomes exactly [Y, original], X is gone.
C6_LostUpdate ==
  [][\A t \in Tabs :
       (/\ lastOp'.op = "handleSend" /\ lastOp'.tab = t
        /\ lastOp'.wrote /\ lastOp'.ok
        /\ pending[t] > 0
        /\ Len(requests[t]) = 1
        /\ storage.kind = "json"
        /\ Len(storage.val) = 2
        /\ Tail(storage.val) = requests[t]
        /\ Head(storage.val).from # activeUser[t]
        /\ Head(storage.val) # requests[t][1])
       => /\ storage'.val = <<Head(requests'[t])>> \o requests[t]
          /\ Head(storage'.val).from = activeUser[t]
          /\ Head(storage.val) \notin Range(storage'.val)]_vars

\* Tab B has just overwritten tab A's submit: A still shows [X, original],
\* storage holds [Y, original].
C6_Witness ==
  /\ lastOp.op = "handleSend"
  /\ lastOp.tab = "B"
  /\ lastOp.ok
  /\ Len(requests["A"]) = 2
  /\ requests["A"][1].from = Loic
  /\ requests["A"][2] = OldEntry(Alex, "nouveau")
  /\ storage.val = requests["B"]
  /\ Len(storage.val) = 2
  /\ storage.val[1].from = Sam
  /\ storage.val[2] = OldEntry(Alex, "nouveau")
  /\ pending["A"] > 0

\* C7: the storage listener sets the in-memory list to the list in storage;
\* and whenever no mounted tab has a notification left to handle, every
\* mounted tab's in-memory list equals the stored list.
C7_Convergence ==
  /\ lastOp.op = "storage" => requests[lastOp.tab] = loadRequests(storage)
  /\ (\A t \in Tabs : mounted[t] => pending[t] = 0)
       => \A t \in Tabs : mounted[t] => requests[t] = loadRequests(storage)

\* Both tabs are mounted, a submit of the other tab has been handled last
\* and nothing is left to handle.
C7_Witness ==
  /\ \A t \in Tabs : mounted[t] /\ pending[t] = 0
  /\ lastOp.op = "storage"
  /\ Len(requests[lastOp.tab]) = 2
  /\ requests[lastOp.tab][1].from # activeUser[lastOp.tab]
  /\ requests[lastOp.tab][1].createdAt >= 0

SentBody == inflight'[Len(inflight')].body

\* C8: every save sends one update request whose body carries the draft
\* fulfillment status and the draft payment status, whichever select is
\* dirty.
C8_SaveSendsBothStatuses ==
  [][lastEd'.op = "saveStatus"
     => /\ Len(inflight') = Len(inflight) + 1
        /\ {"status", "paymentStatus"} \subseteq DOMAIN SentBody
        /\ SentBody.status = newStatus
        /\ SentBody.paymentStatus = newPayment]_vars

\* A save was started with only the payment select dirty, set back to the
\* committed value.
C8_Witness ==
  /\ lastEd.op = "saveStatus"
  /\ Len(inflight) = 1
  /\ ~editingStatus
  /\ editingPayment
  /\ newPayment = order.paymentStatus
  /\ inflight[1].body.paymentStatus = newPayment
  /\ inflight[1].body.status = order.status

AuditLine == "audit"

C10_SuccessShowsServerOrder ==
  [][(lastEd'.op = "jsonResolve" /\ lastEd'.data.hasOrder)
     => /\ order' = lastEd'.data.order
        /\ ~editingStatus'
        /\ ~editingPayment'
        /\ ~saving']_vars

\* A save succeeded and the server's order differs from the draft and from
\* the order displayed before.
C10_Witness ==
  /\ lastEd.op = "jsonResolve"
  /\ lastEd.data.hasOrder
  /\ order = lastEd.data.order
  /\ order.status # newStatus
  /\ order.paymentStatus # newPayment
  /\ order.notes # <<>>
  /\ ~saving

\* The update request failed: fetch rejected, the body could not be parsed,
\* or the server answered with an error body, which carries no order.
FailedOutcome ==
  \/ lastEd'.op \in {"fetchReject", "jsonReject"}
  \/ lastEd'.op = "jsonResolve" /\ ~lastEd'.data.hasOrder

\* C11: when an update request fails an error notification is shown, the
\* displayed order, both drafts and both editing flags are as they were,
\* saving is false again and no further request is sent.
C11_FailureKeepsPreSaveState ==
  [][FailedOutcome
     => /\ toast' = "error"
        /\ order' = order
        /\ newStatus' = newStatus
        /\ newPayment' = newPayment
        /\ editingStatus' = editingStatus
        /\ editingPayment' = editingPayment
        /\ ~saving'
        /\ Len(inflight') = Len(inflight) - 1]_vars

\* C12: the displayed order changes only in the step that receives the
\* server's answer to a successful update (a body with the updated order);
\* selecting, cancelling, starting a save and failed outcomes leave it as it
\* was.
C12_NoOptimisticUpdate ==
  [][order' # order
     => /\ lastEd'.op = "jsonResolve"
        /\ lastEd'.data.hasOrder]_vars

FailedQueueWrite(t) == lastOp'.tab = t /\ lastOp'.wrote /\ ~lastOp'.ok

\* The in-memory queue of tab t took the value the operation computes.
QueueUpdated(t) ==
  CASE lastOp'.op = "handleSend" ->
         /\ Tail(requests'[t]) = requests[t]
         /\ Head(requests'[t]).status = "nouveau"
    [] lastOp'.op = "markVu" ->
         /\ Len(requests'[t]) = Len(requests[t])
         /\ \E i \in 1..Len(requests[t]) :
               requests[t][i].status = "nouveau" /\ requests'[t][i].status = "vu"
    [] lastOp'.op = "markTraite" ->
         /\ Len(requests'[t]) = Len(requests[t])
         /\ \E i \in 1..Len(requests[t]) :
               requests[t][i].status # "traite" /\ requests'[t][i].status = "traite"
    [] lastOp'.op = "deleteReq" -> Len(requests'[t]) < Len(requests[t])
    [] lastOp'.op = "clearTraited" -> requests'[t] = NonDone(requests[t])
    [] OTHER -> FALSE

FailedTodoWrite(o) == lastCard'.order = o /\ lastCard'.wrote /\ ~lastCard'.ok

\* The in-memory todo list of order o took the value the operation computes.
TodoUpdated(o) ==
  CASE lastCard'.op = "addTodo" ->
         /\ Len(todos'[o]) = Len(todos[o]) + 1
         /\ SubSeq(todos'[o], 1, Len(todos[o])) = todos[o]
         /\ todos'[o][Len(todos'[o])].text = Trim(newText[o])
         /\ ~todos'[o][Len(todos'[o])].done
    [] lastCard'.op = "toggleTodo" ->
         /\ Len(todos'[o]) = Len(todos[o])
         /\ \E i \in 1..Len(todos[o]) : todos'[o][i].done # todos[o][i].done
    [] lastCard'.op = "deleteTodo" -> Len(todos'[o]) < Len(todos[o])
    [] OTHER -> FALSE

\* C13: a queue or todo mutation whose setItem throws still puts the new
\* list in memory, leaves the stored value (and the other tabs) as they
\* were, and shows nothing: no notification, no indicator.
C13_WriteFailureSwallowed ==
  [][/\ \A t \in Tabs :
          ((lastOp' # lastOp \/ requests' # requests) /\ FailedQueueWrite(t))
          => /\ QueueUpdated(t)
             /\ storage' = storage
             /\ pending' = pending
             /\ toast' = toast
             /\ lastOp'.op # "handleSend" => sent' = sent
     /\ \A o \in OrderIds :
          ((lastCard' # lastCard \/ todos' # todos) /\ FailedTodoWrite(o))
          => /\ TodoUpdated(o)
             /\ todoStorage' = todoStorage
             /\ toast' = toast]_vars

\* After a failed queue write and a failed todo write, memory and storage
\* differ in the panel and in the card.
C13_Witness ==
  /\ lastOp.op = "markTraite"
  /\ lastOp.wrote
  /\ ~lastOp.ok
  /\ requests["A"] # loadRequests(storage)
  /\ lastCard.op = "addTodo"
  /\ lastCard.wrote
  /\ ~lastCard.ok
  /\ todos["o1"] # initialList(todoStorage["o1"])

Created(c) == calls[c].response.status = 201

\* What both endpoints are said to share: a number made by the server from
\* its clock, the default statuses, the order stored and returned with its
\* line items.
GeneratedWithDefaults(c) ==
  LET o == calls[c].response.order
  IN  /\ o.orderNumber = calls[c].orderNumber
      /\ Len(o.orderNumber) = 2
      /\ o.orderNumber[1] \in {"MAN", "TEST"}
      /\ o.orderNumber[2] \in 0..now
      /\ o.status = "COMMANDE_A_TRAITER"
      /\ o.paymentStatus = "PENDING"
      /\ "items" \in DOMAIN o
      /\ \E i \in 1..Len(ordersTable) : ordersTable[i] = o

EmptyCustomer(o) == o.customerName = "" /\ o.customerEmail = ""

\* C15 as stated: every order a creation endpoint (manual or test) created
\* has a server-generated number, empty customer fields and the default
\* statuses, and is returned with its line items.
C15_Original ==
  \A c \in CallIds :
    Created(c) => GeneratedWithDefaults(c) /\ EmptyCustomer(calls[c].response.order)

\* C15 amended: as stated for the manual endpoint (no line items); the test
\* endpoint's order carries the sample customer and the two sample items.
C15_CreationDefaults ==
  \A c \in CallIds :
    Created(c)
    => /\ GeneratedWithDefaults(c)
       /\ calls[c].endpoint = "manual"
            => /\ EmptyCustomer(calls[c].response.order)
               /\ calls[c].response.order.items = <<>>
               /\ calls[c].response.order.orderNumber[1] = "MAN"
       /\ calls[c].endpoint = "test"
            => /\ calls[c].response.order.customerName = "Marie Dupont"
               /\ calls[c].response.order.customerEmail = "marie.dupont@example.com"
               /\ Len(calls[c].response.order.items) = 2
               /\ calls[c].response.order.orderNumber[1] = "TEST"

\* A manual call and a test call have both answered 201.
C15_Witness ==
  \E c, d \in CallIds :
    /\ Created(c) /\ calls[c].endpoint = "manual"
    /\ Created(d) /\ calls[d].endpoint = "test"
    /\ Len(ordersTable) = 2

\* C16: every step changes the todo list of at most one order, the one the
\* operation was called on: an add, toggle or delete on order o leaves the
\* in-memory and the stored list of every other order as they were.
C16_TodoListsIndependent ==
  [][\A o \in OrderIds :
       (todos'[o] # todos[o] \/ todoStorage'[o] # todoStorage[o])
       => /\ lastCard'.order = o
          /\ lastCard'.op \in {"addTodo", "toggleTodo", "deleteTodo"}
          /\ \A p \in OrderIds \ {o} :
                todos'[p] = todos[p] /\ todoStorage'[p] = todoStorage[p]]_vars

\* A task was added, stored and ticked on order o1 while order o2 holds its
\* own stored task, untouched.
C16_Witness ==
  /\ lastCard.op = "toggleTodo"
  /\ lastCard.order = "o1"
  /\ Len(todos["o1"]) = 2
  /\ todos["o1"][2].done
  /\ todoStorage["o1"] = JSONstringify(todos["o1"])
  /\ todos["o2"] = <<OldTodo>>
  /\ todoStorage["o2"] = JSONstringify(<<OldTodo>>)

StoredImages(o) == initialList(imageStorage[o])

\* C17: after every addImage the in-memory list and the stored list of each
\* order have at most 2 elements; an addition with room appends the image;
\* a list that holds 2 images, in memory or in storage, is left as it is by
\* every further addition.
C17_AtMostTwoImages ==
  [][\A o \in OrderIds :
       /\ Len(localImages'[o]) <= 2
       /\ Len(StoredImages(o)') <= 2
       /\ Len(localImages[o]) = 2 => localImages'[o] = localImages[o]
       /\ Len(StoredImages(o)) = 2 => imageStorage'[o] = imageStorage[o]
       /\ (lastCard'.order = o /\ Len(localImages[o]) < 2)
            => /\ Len(localImages'[o]) = Len(localImages[o]) + 1
               /\ SubSeq(localImages'[o], 1, Len(localImages[o])) = localImages[o]
       /\ (lastCard'.order = o /\ lastCard'.ok)
            => imageStorage'[o] = JSONstringify(localImages'[o])]_vars

\* Two images were added and stored for order o1, and one more addition was
\* made after that.
C17_Witness ==
  /\ lastCard.op = "addImage"
  /\ lastCard.order = "o1"
  /\ ~lastCard.ok
  /\ localImages["o1"] = <<"img1", "img2">>
  /\ imageStorage["o1"] = JSONstringify(localImages["o1"])

OrderRows == {i \in 1..Len(ordersTable) : Len(ordersTable[i].orderNumber) = 2}

C19_StoredStatusNeverRegresses ==
  [][\A x \in Range(loadRequests(storage)), y \in Range(loadRequests(storage')) :
       x.id = y.id => Rank(y.status) >= Rank(x.status)]_vars

NewestFirst(q) == \A i \in 1..(Len(q) - 1) : q[i].createdAt >= q[i + 1].createdAt

\* C20: in every reachable state the stored queue and the in-memory queue
\* of every tab are ordered by createdAt, newest first.
C20_NewestFirst ==
  /\ NewestFirst(loadRequests(storage))
  /\ \A t \in Tabs : NewestFirst(requests[t])

\* Two entries submitted in different tabs at different times are stored and
\* shown in both tabs, the later one first.
C20_Witness ==
  /\ storage.kind = "json"
  /\ Len(storage.val) = 2
  /\ storage.val[1].createdAt = 1
  /\ storage.val[2].createdAt = 0
  /\ storage.val[1].from # storage.val[2].from
  /\ \A t \in Tabs : requests[t] = storage.val

\* C21: on one order, an add whose text is empty after trimming changes
\* neither the list nor the stored value; any other add appends one entry
\* with the trimmed text and done = false; a toggle flips done of one entry
\* and leaves the rest; a delete removes one entry and leaves the rest; and
\* after an operation whose write succeeds the stored value is the list.
C21_TodoOperations ==
  [][\A o \in OrderIds :
       lastCard'.order = o
       => /\ (lastCard'.op = "addTodo" /\ Trim(newText[o]) = <<>>)
               => todos'[o] = todos[o] /\ todoStorage'[o] = todoStorage[o]
          /\ (lastCard'.op = "addTodo" /\ Trim(newText[o]) # <<>>)
               => /\ Len(todos'[o]) = Len(todos[o]) + 1
                  /\ SubSeq(todos'[o], 1, Len(todos[o])) = todos[o]
                  /\ todos'[o][Len(todos'[o])].text = Trim(newText[o])
                  /\ todos'[o][Len(todos'[o])].done = FALSE
          /\ lastCard'.op = "toggleTodo"
               => \E i \in 1..Len(todos[o]) :
                     todos'[o] = [todos[o] EXCEPT ![i].done = ~todos[o][i].done]
          /\ lastCard'.op = "deleteTodo"
               => \E i \in 1..Len(todos[o]) : todos'[o] = RemoveAt(todos[o], i)
          /\ (lastCard'.wrote /\ lastCard'.ok)
               => todoStorage'[o] = JSONstringify(todos'[o])]_vars

\* A padded text was added after the stored task, then the stored task was
\* ticked and written.
C21_Witness ==
  /\ lastCard.op = "toggleTodo"
  /\ lastCard.ok
  /\ Len(todos["o1"]) = 2
  /\ todos["o1"][1] = [OldTodo EXCEPT !.done = TRUE]
  /\ todos["o1"][2].text = <<"a">>
  /\ ~todos["o1"][2].done
  /\ todoStorage["o1"] = JSONstringify(todos["o1"])

\* C22: a deleteReq removes exactly one entry: the list afterwards is the
\* previous list without one position, every other entry unmodified and in
\* its place, in memory and in storage.
C22_DeleteRemovesOneEntry ==
  [][\A t \in Tabs :
       (lastOp'.op = "deleteReq" /\ lastOp'.tab = t)
       => /\ \E i \in 1..Len(requests[t]) : requests'[t] = RemoveAt(requests[t], i)
          /\ lastOp'.ok => storage' = JSONstringify(requests'[t])]_vars

\* C23: whenever both editing flags are false and no save is in flight, the
\* two selects show the statuses of the displayed order.
C23_IdleDraftsMatchOrder ==
  (Rendered /\ ~editingStatus /\ ~editingPayment /\ ~saving /\ inflight = <<>>)
  => /\ newStatus = order.status
     /\ newPayment = order.paymentStatus

\* C24: at most one update request is in flight at any time, and every save
\* that was started resets saving to false once its request completes.
C24_SingleSaveCompletes ==
  /\ [](Len(inflight) <= 1)
  /\ saving ~> ~saving

C24_Witness ==
  /\ lastEd.op = "fetchReject"
  /\ ~saving
  /\ inflight = <<>>
  /\ toast = "error"
  /\ editingStatus

RawRows(table, n) ==
  {i \in 1..Len(table) : table[i].orderNumber = RawNumber(n)}

Returns(c) == calls[c].pc # "done" /\ calls'[c].pc = "done"

\* C25: in the test endpoint the test order is created only after the
\* diagnostic insert and delete both succeeded; a failed diagnostic step
\* answers 500 without creating an order; and whenever the endpoint returns,
\* no row with its "-RAW" number remains in the table.
C25_DiagnosticCleanedUp ==
  [][\A c \in CallIds :
       /\ (calls[c].pc # "t_create" /\ calls'[c].pc = "t_create")
          => /\ calls[c].pc = "t_delete"
             /\ RawRows(ordersTable', calls[c].orderNumber) = {}
       /\ (Returns(c) /\ calls[c].pc \in {"t_insert", "t_delete"})
          => /\ calls'[c].response.status = 500
             /\ Cardinality(OrderRows') = Cardinality(OrderRows)
       /\ (Returns(c) /\ calls[c].endpoint = "test")
          => RawRows(ordersTable', calls[c].orderNumber) = {}]_vars

====
